---- MODULE Spec2Model ----
(***************************************************************************)
(* simple_lookup (src/main.c): a one-shot DNS "A" lookup.  main validates  *)
(* the hostname, queries the resolver into ns_buffer, decodes the answer   *)
(* section into a singly linked list of rr_response nodes hanging off a    *)
(* sentinel, prints the list and releases the memory.                      *)
(*                                                                         *)
(* Memory model.  malloc does not initialise what it returns, so a field   *)
(* the program never wrote holds an indeterminate value.  The next field   *)
(* of a fresh node is drawn from GarbagePtrs when the node is allocated;   *)
(* the data fields of a fresh node hold UNINIT and are drawn from          *)
(* GarbageRRs when they are read.  A dereference of NULLP or WILD is a     *)
(* fault (pc = "crashed"); a traversal that never ends is pc = "hung".     *)
(***************************************************************************)
EXTENDS Integers, Sequences, FiniteSets, TLC

\* ------------------------------------------------------------------ bounds

MaxAnswers == 2     \* answer records in one response
MaxHostLen == 3     \* length of the exhaustively enumerated hostnames
MaxRdLen == 4       \* payload length of the exhaustively enumerated records
MaxOverread == 1    \* bytes a %s read may run past the payload before a NUL
MaxExtra == 1       \* records printed beyond MaxAnswers before a cyclic list is no longer followed

\* --------------------------------------------------------- program constants

MAX_HOSTNAME_LEN == 253
ns_t_a == 1
ns_t_cname == 5
ns_c_in == 1

NULLP == -1         \* the null pointer
WILD == -2          \* an address outside every live object
UNINIT == -3        \* a field malloc left unwritten

\* ------------------------------------------------------------------ helpers

RECURSIVE SeqsOfLen(_, _)
SeqsOfLen(S, n) ==
  IF n = 0 THEN {<<>>}
  ELSE {Append(s, x) : s \in SeqsOfLen(S, n - 1), x \in S}

SeqsUpTo(S, n) == UNION {SeqsOfLen(S, k) : k \in 0..n}

Min(a, b) == IF a < b THEN a ELSE b

\* --------------------------------------------------------------- formatting

DigitChar(d) ==
  CASE d = 0 -> "0" [] d = 1 -> "1" [] d = 2 -> "2" [] d = 3 -> "3"
    [] d = 4 -> "4" [] d = 5 -> "5" [] d = 6 -> "6" [] d = 7 -> "7"
    [] d = 8 -> "8" [] d = 9 -> "9" [] d = 10 -> "a" [] d = 11 -> "b"
    [] d = 12 -> "c" [] d = 13 -> "d" [] d = 14 -> "e" [] d = 15 -> "f"

\* printf("%d") / printf("%lu") of a non-negative value: its decimal digits.
RECURSIVE FmtDec(_)
FmtDec(n) ==
  IF n < 10 THEN <<DigitChar(n)>>
  ELSE Append(FmtDec(n \div 10), DigitChar(n % 10))

\* printf("%02x") of an u_char: two lowercase hexadecimal digits.
FmtHex2(b) == <<DigitChar(b \div 16), DigitChar(b % 16)>>

\* The character printf("%s") writes for one byte of the string.
ByteChar(b) ==
  CASE b = 10 -> "\n" [] b = 46 -> "." [] b = 65 -> "A" [] b = 66 -> "B"
    [] b = 119 -> "w"
    [] OTHER -> "?"

\* ----------------------------------------------------------------- hostname

HostChars == {"a", "-", "."}

Letters ==
  {"a", "b", "c", "d", "e", "f", "g", "h", "i", "j", "k", "l", "m",
   "n", "o", "p", "q", "r", "s", "t", "u", "v", "w", "x", "y", "z",
   "A", "B", "C", "D", "E", "F", "G", "H", "I", "J", "K", "L", "M",
   "N", "O", "P", "Q", "R", "S", "T", "U", "V", "W", "X", "Y", "Z"}
Digits == {"0", "1", "2", "3", "4", "5", "6", "7", "8", "9"}

IsAlpha(c) == c \in Letters
IsAlnum(c) == c \in Letters \cup Digits

\* "aaa.aaa. ... .aa": n characters, a dot at every fourth place.
LongHost(n) ==
  [k \in 1..n |-> IF k % 4 = 0 /\ k < n - 1 THEN "." ELSE "a"]

Hostnames ==
  SeqsUpTo(HostChars, MaxHostLen)
    \cup {<<"a", ".", "a", "a">>, <<"1", "-", "1", ".", "a", "a">>,
          <<"a", ".", "1", "a">>, <<"a", "-", ".", "a", "a">>}
    \cup {LongHost(MAX_HOSTNAME_LEN), LongHost(MAX_HOSTNAME_LEN + 1),
          Append(LongHost(MAX_HOSTNAME_LEN), "-")}

\* One repetition of  [a-zA-Z0-9]([a-zA-Z0-9\-]*[a-zA-Z0-9])?\.  starting at
\* position p of s: the positions just after its dot.
LabelEnds(s, p) ==
  IF p > Len(s) \/ ~IsAlnum(s[p]) THEN {}
  ELSE {q + 2 : q \in {q \in p..(Len(s) - 1) :
           /\ s[q + 1] = "."
           /\ IsAlnum(s[q])
           /\ \A m \in (p + 1)..(q - 1) : IsAlnum(s[m]) \/ s[m] = "-"}}

\* The positions reached after one or more repetitions of the group.
RECURSIVE GroupClosure(_, _, _)
GroupClosure(s, frontier, seen) ==
  IF frontier = {} THEN seen
  ELSE LET nxt == UNION {LabelEnds(s, p) : p \in frontier}
       IN GroupClosure(s, nxt \ seen, seen \cup nxt)

\* The pattern of isvalidhostname, anchored at both ends.
RegexMatches(s) ==
  \E p \in GroupClosure(s, {1}, {}) :
    /\ Len(s) - p + 1 >= 2
    /\ \A m \in p..Len(s) : IsAlpha(s[m])

\* isvalidhostname with regexec's result: 0 when the hostname is valid.
isvalidhostname(s, execError) ==
  IF execError THEN 1
  ELSE IF ~RegexMatches(s) THEN 1
  ELSE 0

\* strncpy(hostname, argv[1], MAX_HOSTNAME_LEN); hostname[MAX_HOSTNAME_LEN] = 0
CopyHostname(s) == SubSeq(s, 1, Min(Len(s), MAX_HOSTNAME_LEN))

\* ------------------------------------------------------------ the response

OtherType == 99     \* a record type that is neither A nor CNAME
Types == {ns_t_a, ns_t_cname, OtherType}

\* One answer record as it lies in the response: whether ns_parserr can
\* extract it, and what it extracts.
WireRR(ok, type, ttl, rdata) ==
  [ok |-> ok, type |-> type, class |-> ns_c_in, ttl |-> ttl, rdata |-> rdata]

BadRR == WireRR(FALSE, ns_t_a, 0, <<>>)

PipeRRs ==
  { WireRR(TRUE, ns_t_a, 300, <<192, 0, 2, 1>>),
    WireRR(TRUE, ns_t_a, 60, <<1, 2, 3, 4, 5, 6>>),
    WireRR(TRUE, ns_t_cname, 600, <<119, 119, 0>>),
    WireRR(TRUE, ns_t_cname, 600, <<65, 66>>),
    WireRR(TRUE, OtherType, 30, <<1, 171>>),
    WireRR(TRUE, OtherType, 30, <<>>) }

\* What res_query can leave in ns_buffer: a message ns_initparse rejects, or
\* a framed message with an answer section.
NoMsg == [framed |-> FALSE, rrs |-> <<>>]
Messages ==
  {NoMsg} \cup
  {[framed |-> TRUE, rrs |-> s] : s \in SeqsUpTo(PipeRRs \cup {BadRR}, MaxAnswers)}

\* ------------------------------------------------------------------- state

VARIABLES
  pc,             \* where main is
  status,         \* exit status of main; -1 while it runs
  argc, argv1,    \* the command line
  hostname,       \* char hostname[MAX_HOSTNAME_LEN + 1]
  ns_buffer,      \* the answer buffer: [st, msg]
  ancount,        \* ns_msg_count(msg, ns_s_an)
  heap,           \* the rr_response nodes malloc returned, by address
  freed,          \* the nodes passed to free
  response_list,  \* main's list head
  i,              \* rr_response_parse's loop index
  rr,             \* rr_response_parse's ns_rr
  current,        \* rr_pretty_print_all's cursor
  out,            \* what was written to stdout
  err,            \* what was written to stderr
  rendered        \* one entry per record printed: the node, the fields read, the text, the rdata offsets read

vars == <<pc, status, argc, argv1, hostname, ns_buffer, ancount, heap, freed,
          response_list, i, rr, current, out, err, rendered>>

NoRR == [type |-> UNINIT, class |-> UNINIT, ttl |-> UNINIT,
         rdlength |-> UNINIT, rdata |-> UNINIT]

\* What an ns_rr or a node that holds no extracted record can turn out to hold.
GarbageRRs ==
  {[type |-> t, class |-> 0, ttl |-> 0, rdlength |-> p[1], rdata |-> p[2]] :
     t \in Types, p \in {<<0, WILD>>, <<4, NULLP>>}}

Init ==
  /\ pc = "start"
  /\ status = -1
  /\ argc \in {1, 2}
  /\ argv1 \in (IF argc < 2 THEN {<<>>} ELSE Hostnames)
  /\ hostname = <<>>
  /\ ns_buffer = [st |-> "unallocated", msg |-> NoMsg]
  /\ ancount = 0
  /\ heap = <<>>
  /\ freed = {}
  /\ response_list = NULLP
  /\ i = 0
  /\ rr = NoRR
  /\ current = NULLP
  /\ out = <<>>
  /\ err = <<>>
  /\ rendered = <<>>

\* --------------------------------------------------------------- the list

NewNodeId(h) == Cardinality(DOMAIN h)

\* The values the next field of the node malloc is about to return can hold:
\* null, an address outside the heap, the first node, the node itself.
GarbagePtrs(h) == {NULLP, WILD, 0, NewNodeId(h)}

\* rr_response_new: the heap with one more node, nothing in it written.
rr_response_new(h, g) ==
  [n \in DOMAIN h \cup {NewNodeId(h)} |->
     IF n \in DOMAIN h THEN h[n] ELSE NoRR @@ [next |-> g]]

\* rr_response_free: the node passed is released, and only that node.
rr_response_free(f, response) ==
  IF response = NULLP THEN f ELSE f \cup {response}

HUNG == -4

\* The loop of rr_response_add: the node whose next is NULL, WILD when the
\* walk leaves the heap, HUNG when it never ends.
RECURSIVE WalkToLast(_, _, _)
WalkToLast(h, cur, visited) ==
  LET n == h[cur].next
  IN IF n = NULLP THEN cur
     ELSE IF n = WILD THEN WILD
     ELSE IF n \in visited THEN HUNG
     ELSE WalkToLast(h, n, visited \cup {n})

\* rr_response_add: [kind, heap].
rr_response_add(h, response, new) ==
  IF response = NULLP THEN [kind |-> "crashed", heap |-> h]
  ELSE LET last == WalkToLast(h, response, {response})
       IN IF last = WILD THEN [kind |-> "crashed", heap |-> h]
          ELSE IF last = HUNG THEN [kind |-> "hung", heap |-> h]
          ELSE [kind |-> "ok", heap |-> [h EXCEPT ![last].next = new]]

\* ------------------------------------------------------------- the renderer

\* The four labelled fields rr_pretty_print_all prints first.
RenderHeader(n) ==
  <<"Type: ">> \o FmtDec(n.type) \o <<" ">>
    \o <<"Class: ">> \o FmtDec(n.class) \o <<" ">>
    \o <<"TTL: ">> \o FmtDec(n.ttl) \o <<" ">>
    \o <<"RDLength: ">> \o FmtDec(n.rdlength) \o <<" ">>

\* The byte at offset j of the memory rdata points to: the payload, then
\* the bytes `over` that follow it, then a NUL.
ByteAt(payload, over, j) ==
  IF j < Len(payload) THEN payload[j + 1]
  ELSE IF j < Len(payload) + Len(over) THEN over[j - Len(payload) + 1]
  ELSE 0

\* The offset of the first NUL at or after offset 0.
RECURSIVE FirstNul(_, _, _)
FirstNul(payload, over, j) ==
  IF ByteAt(payload, over, j) = 0 THEN j ELSE FirstNul(payload, over, j + 1)

\* RenderA with the four bytes taken in the opposite order.
RenderA_Reversed(rdlength, payload) ==
  IF rdlength = 4
  THEN [text |-> <<"RData: ">> \o FmtDec(payload[4]) \o <<".">>
                   \o FmtDec(payload[3]) \o <<".">> \o FmtDec(payload[2])
                   \o <<".">> \o FmtDec(payload[1]) \o <<"\n">>,
        idx |-> {0, 1, 2, 3}]
  ELSE [text |-> <<"Invalid A record length", "\n">>, idx |-> {}]

\* case ns_t_a
RenderA(rdlength, payload) ==
  IF rdlength = 4
  THEN [text |-> <<"RData: ">> \o FmtDec(payload[1]) \o <<".">>
                   \o FmtDec(payload[2]) \o <<".">> \o FmtDec(payload[3])
                   \o <<".">> \o FmtDec(payload[4]) \o <<"\n">>,
        idx |-> {0, 1, 2, 3}]
  ELSE [text |-> <<"Invalid A record length", "\n">>, idx |-> {}]

\* case ns_t_cname: printf("%s") reads up to and including the first NUL.
RenderCname(payload, over) ==
  LET z == FirstNul(payload, over, 0)
  IN [text |-> <<"RData (CNAME): ">>
                 \o [j \in 1..z |-> ByteChar(ByteAt(payload, over, j - 1))]
                 \o <<"\n">>,
      idx |-> 0..z]

\* default
RECURSIVE HexBytes(_, _, _)
HexBytes(payload, rdlength, j) ==
  IF j < rdlength
  THEN FmtHex2(payload[j + 1]) \o <<" ">> \o HexBytes(payload, rdlength, j + 1)
  ELSE <<>>

\* RenderDefault with a loop that stops one byte early.
RenderDefault_OneShort(rdlength, payload) ==
  [text |-> <<"RData (unknown type): ">> \o HexBytes(payload, rdlength - 1, 0)
              \o <<"\n">>,
   idx |-> 0..(rdlength - 2)]

RenderDefault(rdlength, payload) ==
  [text |-> <<"RData (unknown type): ">> \o HexBytes(payload, rdlength, 0)
              \o <<"\n">>,
   idx |-> 0..(rdlength - 1)]

\* The switch of rr_pretty_print_all: the data field and the rdata offsets read.
RenderData(type, rdlength, payload, over) ==
  IF type = ns_t_a THEN RenderA(rdlength, payload)
  ELSE IF type = ns_t_cname THEN RenderCname(payload, over)
  ELSE RenderDefault(rdlength, payload)

\* The rdata offsets the switch reads, by the fields alone (to tell whether
\* a bad pointer is dereferenced at all).
ReadsRdata(type, rdlength) ==
  IF type = ns_t_a THEN rdlength = 4
  ELSE IF type = ns_t_cname THEN TRUE
  ELSE rdlength > 0

\* ------------------------------------------------------------------- main

Exit(code) ==
  /\ pc' = "done"
  /\ status' = code

\* A fault: the process is killed by SIGSEGV.
Crash ==
  /\ pc' = "crashed"
  /\ status' = 139

\* A loop that never ends: the process never exits.
Hang ==
  /\ pc' = "hung"
  /\ status' = status

\* main, lines 182-185: no hostname on the command line.
MainUsage ==
  /\ pc = "start"
  /\ argc < 2
  /\ out' = out \o <<"Usage: ", "<hostname>", "\n">>
  /\ Exit(1)
  /\ UNCHANGED <<argc, argv1, hostname, ns_buffer, ancount, heap, freed,
                 response_list, i, rr, current, err, rendered>>

TooLongNote(s) ==
  IF Len(s) > MAX_HOSTNAME_LEN THEN <<"Hostname is too long">> ELSE <<>>

\* main, lines 187-198: the length check, the copy and isvalidhostname.
MainCheckHostname ==
  /\ pc = "start"
  /\ argc >= 2
  /\ hostname' = CopyHostname(argv1)
  /\ \E execError \in BOOLEAN :
       IF isvalidhostname(argv1, execError) # 0
       THEN /\ err' = err \o TooLongNote(argv1)
                        \o <<IF execError THEN "Could not execute regex"
                                          ELSE "Hostname is invalid">>
            /\ Exit(1)
       ELSE /\ err' = err \o TooLongNote(argv1)
            /\ pc' = "alloc"
            /\ status' = status
  /\ UNCHANGED <<argc, argv1, ns_buffer, ancount, heap, freed, response_list,
                 i, rr, current, out, rendered>>

\* main, lines 200-207: malloc of ns_buffer.
MainAllocBuffer ==
  /\ pc = "alloc"
  /\ \E ok \in BOOLEAN :
       IF ok
       THEN /\ ns_buffer' = [ns_buffer EXCEPT !.st = "live"]
            /\ pc' = "query"
            /\ UNCHANGED <<status, err>>
       ELSE /\ err' = Append(err, "Could not allocate ns_buffer")
            /\ Exit(1)
            /\ UNCHANGED ns_buffer
  /\ UNCHANGED <<argc, argv1, hostname, ancount, heap, freed, response_list,
                 i, rr, current, out, rendered>>

\* main, lines 209-216: res_query fills ns_buffer or fails.
MainQuery ==
  /\ pc = "query"
  /\ out' = out \o <<"Resolving hostname ">> \o hostname \o <<"\n">>
  /\ \E failed \in BOOLEAN, m \in Messages :
       IF failed
       THEN /\ err' = Append(err, "Could not resolve hostname")
            /\ ns_buffer' = [ns_buffer EXCEPT !.st = "freed"]
            /\ Exit(1)
       ELSE /\ ns_buffer' = [ns_buffer EXCEPT !.msg = m]
            /\ pc' = "initparse"
            /\ UNCHANGED <<status, err>>
  /\ UNCHANGED <<argc, argv1, hostname, ancount, heap, freed, response_list,
                 i, rr, current, rendered>>

\* main, lines 223-235: ns_initparse and the answer count.
MainInitParse ==
  /\ pc = "initparse"
  /\ IF ~ns_buffer.msg.framed
     THEN /\ err' = Append(err, "Could not parse response")
          /\ ns_buffer' = [ns_buffer EXCEPT !.st = "freed"]
          /\ Exit(1)
          /\ UNCHANGED ancount
     ELSE /\ ancount' = Len(ns_buffer.msg.rrs)
          /\ err' = IF Len(ns_buffer.msg.rrs) = 0
                    THEN Append(err, "No answers found") ELSE err
          /\ pc' = "new_list"
          /\ UNCHANGED <<status, ns_buffer>>
  /\ UNCHANGED <<argc, argv1, hostname, heap, freed, response_list, i, rr,
                 current, out, rendered>>

\* main, line 237, and the entry of rr_response_parse, lines 105-107.
MainNewList ==
  /\ pc = "new_list"
  /\ \E ok \in BOOLEAN, g \in GarbagePtrs(heap) :
       IF ok
       THEN /\ heap' = rr_response_new(heap, g)
            /\ response_list' = NewNodeId(heap)
            /\ err' = err
       ELSE /\ heap' = heap
            /\ response_list' = NULLP
            /\ err' = err \o <<"Could not allocate rr_response",
                               "response is NULL">>
  /\ i' = 0
  /\ pc' = "parse"
  /\ UNCHANGED <<status, argc, argv1, hostname, ns_buffer, ancount, freed,
                 rr, current, out, rendered>>

\* ns_parserr and the ns_rr_* accessors, lines 111-131: what rr holds after
\* the call on answer `idx` (0-based).  A record that does not extract leaves
\* rr as it was, or holding anything.
ExtractRR(w, idx, old) ==
  IF w.ok
  THEN {[type |-> w.type, class |-> w.class, ttl |-> w.ttl,
         rdlength |-> Len(w.rdata), rdata |-> idx + 1]}
  ELSE (IF old = NoRR THEN {} ELSE {old}) \cup GarbageRRs

ParseNotes(w, okAlloc, response) ==
  (IF w.ok THEN <<>> ELSE <<"Could not parse response">>)
    \o (IF okAlloc THEN <<>> ELSE <<"Could not allocate rr_response">>)
    \o (IF okAlloc /\ response = NULLP THEN <<"response is NULL">> ELSE <<>>)

\* rr_response_parse, one iteration of the loop, lines 110-143.
ParseStep ==
  /\ pc = "parse"
  /\ i < ancount
  /\ LET w == ns_buffer.msg.rrs[i + 1]
     IN \E ex \in ExtractRR(w, i, rr), okAlloc \in BOOLEAN,
           g \in GarbagePtrs(heap) :
          /\ rr' = ex
          /\ err' = err \o ParseNotes(w, okAlloc, response_list)
          /\ IF ~okAlloc
             THEN /\ Crash
                  /\ UNCHANGED <<heap, i>>
             ELSE LET id == NewNodeId(heap)
                      h1 == [rr_response_new(heap, g) EXCEPT
                               ![id] = ex @@ [next |-> g]]
                      r == rr_response_add(h1, response_list, id)
                  IN /\ heap' = r.heap
                     /\ IF r.kind = "ok"
                        THEN /\ i' = i + 1
                             /\ UNCHANGED <<pc, status>>
                        ELSE /\ i' = i
                             /\ IF r.kind = "crashed" THEN Crash ELSE Hang
  /\ UNCHANGED <<argc, argv1, hostname, ns_buffer, ancount, freed,
                 response_list, current, out, rendered>>

\* PrettyPrintEnter with free(ns_buffer) moved up to follow rr_response_parse.
PrettyPrintEnter_FreesBuffer ==
  /\ pc = "parse"
  /\ i >= ancount
  /\ out' = out \o <<"Response:", "\n">>
  /\ ns_buffer' = [ns_buffer EXCEPT !.st = "freed"]
  /\ IF response_list = NULLP
     THEN /\ err' = Append(err, "response is NULL")
          /\ Crash
          /\ UNCHANGED current
     ELSE /\ current' = heap[response_list].next
          /\ pc' = "print"
          /\ UNCHANGED <<status, err>>
  /\ UNCHANGED <<argc, argv1, hostname, ancount, heap, freed,
                 response_list, i, rr, rendered>>

\* main, line 239, and rr_pretty_print_all up to the loop, lines 60-67.
PrettyPrintEnter ==
  /\ pc = "parse"
  /\ i >= ancount
  /\ out' = out \o <<"Response:", "\n">>
  /\ IF response_list = NULLP
     THEN /\ err' = Append(err, "response is NULL")
          /\ Crash
          /\ UNCHANGED current
     ELSE /\ current' = heap[response_list].next
          /\ pc' = "print"
          /\ UNCHANGED <<status, err>>
  /\ UNCHANGED <<argc, argv1, hostname, ns_buffer, ancount, heap, freed,
                 response_list, i, rr, rendered>>

TailBytes == {65}

\* The fields of a node as a read finds them: g where nothing was written.
NodeFields(n, g) == IF n.type = UNINIT THEN g @@ [next |-> n.next] ELSE n

FieldGarbage(n) == IF n.type = UNINIT THEN GarbageRRs ELSE {NoRR}

\* rr_pretty_print_all, one iteration of the loop, lines 68-100.
PrettyPrintStep ==
  /\ pc = "print"
  /\ current # NULLP
  /\ Len(rendered) < MaxAnswers + MaxExtra
  /\ IF current \notin DOMAIN heap
     THEN /\ Crash
          /\ UNCHANGED <<current, out, err, rendered>>
     ELSE \E g \in FieldGarbage(heap[current]),
             over \in SeqsUpTo(TailBytes, MaxOverread), fault \in BOOLEAN :
            LET n == NodeFields(heap[current], g)
                valid == n.rdata \in 1..Len(ns_buffer.msg.rrs)
                payload == IF valid THEN ns_buffer.msg.rrs[n.rdata].rdata
                           ELSE <<>>
                d == RenderData(n.type, n.rdlength, payload, over)
                overrun == \E j \in d.idx : j >= n.rdlength
            IN /\ err' = IF n.rdata = NULLP THEN Append(err, "rdata is NULL")
                         ELSE err
               /\ IF \/ ~valid /\ ReadsRdata(n.type, n.rdlength)
                     \/ valid /\ overrun /\ fault
                  THEN /\ Crash
                       /\ UNCHANGED <<current, out, rendered>>
                  ELSE /\ out' = out \o RenderHeader(n) \o d.text
                       /\ rendered' = Append(rendered,
                            [node |-> current,
                             rec |-> n,
                             text |-> RenderHeader(n) \o d.text,
                             idx |-> d.idx,
                             live |-> ns_buffer.st = "live"])
                       /\ current' = n.next
                       /\ UNCHANGED <<pc, status>>
  /\ UNCHANGED <<argc, argv1, hostname, ns_buffer, ancount, heap, freed,
                 response_list, i, rr>>

\* main, line 241: rr_response_free(response_list), once the loop has ended.
MainFreeList ==
  /\ pc = "print"
  /\ current = NULLP
  /\ freed' = rr_response_free(freed, response_list)
  /\ pc' = "free_buffer"
  /\ UNCHANGED <<status, argc, argv1, hostname, ns_buffer, ancount, heap,
                 response_list, i, rr, current, out, err, rendered>>

\* main, lines 243-244: free(ns_buffer); return 0.
MainFreeBuffer ==
  /\ pc = "free_buffer"
  /\ ns_buffer' = [ns_buffer EXCEPT !.st = "freed"]
  /\ Exit(0)
  /\ UNCHANGED <<argc, argv1, hostname, ancount, heap, freed, response_list,
                 i, rr, current, out, err, rendered>>

Next ==
  \/ MainUsage
  \/ MainCheckHostname
  \/ MainAllocBuffer
  \/ MainQuery
  \/ MainInitParse
  \/ MainNewList
  \/ ParseStep
  \/ PrettyPrintEnter
  \/ PrettyPrintStep
  \/ MainFreeList
  \/ MainFreeBuffer

Spec == Init /\ [][Next]_vars

\* ------------------------------------------- the renderer on its own inputs

RenderBytes == {0, 9, 65, 171, 255}

SamplePayloads ==
  {<<93, 184, 216, 34>>, <<192, 0, 2, 1>>, <<1, 171>>, <<1, 2, 3, 4, 5, 6>>}

RenderRRs ==
  {WireRR(TRUE, t, 300, p) :
     t \in Types, p \in SeqsUpTo(RenderBytes, MaxRdLen) \cup SamplePayloads}

\* The list rr_response_parse leaves for the one-record answer w when malloc
\* happens to hand out zeroed memory.
ListOf(w) ==
  LET h0 == rr_response_new(<<>>, NULLP)
      ex == CHOOSE x \in ExtractRR(w, 0, NoRR) : TRUE
      h1 == [rr_response_new(h0, NULLP) EXCEPT ![1] = ex @@ [next |-> NULLP]]
  IN rr_response_add(h1, 0, 1).heap

\* main as rr_response_parse returns, for every one-record answer of RenderRRs.
InitRender ==
  /\ pc = "parse"
  /\ status = -1
  /\ argc = 2
  /\ argv1 = <<"a", ".", "a", "a">>
  /\ hostname = CopyHostname(argv1)
  /\ \E w \in RenderRRs :
       /\ ns_buffer = [st |-> "live", msg |-> [framed |-> TRUE, rrs |-> <<w>>]]
       /\ heap = ListOf(w)
       /\ rr = CHOOSE x \in ExtractRR(w, 0, NoRR) : TRUE
  /\ ancount = 1
  /\ freed = {}
  /\ response_list = 0
  /\ i = 1
  /\ current = NULLP
  /\ out = <<"Resolving hostname ">> \o hostname \o <<"\n">>
  /\ err = <<>>
  /\ rendered = <<>>

NextRender ==
  \/ PrettyPrintEnter
  \/ PrettyPrintStep
  \/ MainFreeList
  \/ MainFreeBuffer

SpecRender == InitRender /\ [][NextRender]_vars

\* ------------------------------------------------- reading the output back

DataLabels ==
  {"RData: ", "Invalid A record length", "RData (CNAME): ",
   "RData (unknown type): "}

\* The data field of a printed record: from its label to the end of the text.
RECURSIVE DataStart(_, _)
DataStart(text, p) ==
  IF p > Len(text) THEN p
  ELSE IF text[p] \in DataLabels THEN p
  ELSE DataStart(text, p + 1)

DataField(text) == SubSeq(text, DataStart(text, 1), Len(text))

\* What lies between the label and the closing newline.
DataBody(text) ==
  LET f == DataField(text) IN SubSeq(f, 2, Len(f) - 1)

DecDigitValue(c) ==
  CASE c = "0" -> 0 [] c = "1" -> 1 [] c = "2" -> 2 [] c = "3" -> 3
    [] c = "4" -> 4 [] c = "5" -> 5 [] c = "6" -> 6 [] c = "7" -> 7
    [] c = "8" -> 8 [] c = "9" -> 9 [] OTHER -> -1000000

HexDigitValue(c) ==
  CASE c = "a" -> 10 [] c = "b" -> 11 [] c = "c" -> 12 [] c = "d" -> 13
    [] c = "e" -> 14 [] c = "f" -> 15 [] OTHER -> DecDigitValue(c)

\* The number a run of decimal digits denotes.
RECURSIVE DecValue(_)
DecValue(ds) ==
  IF ds = <<>> THEN 0
  ELSE 10 * DecValue(SubSeq(ds, 1, Len(ds) - 1)) + DecDigitValue(ds[Len(ds)])

\* Decimal with no sign, no padding and no leading zero.
IsPlainDecimal(ds) ==
  /\ Len(ds) >= 1
  /\ \A k \in 1..Len(ds) : ds[k] \in Digits
  /\ Len(ds) > 1 => ds[1] # "0"

\* The runs of tokens between the separators sep.
RECURSIVE SplitOn(_, _, _)
SplitOn(ts, sep, acc) ==
  IF ts = <<>> THEN <<acc>>
  ELSE IF Head(ts) = sep THEN <<acc>> \o SplitOn(Tail(ts), sep, <<>>)
  ELSE SplitOn(Tail(ts), sep, Append(acc, Head(ts)))

HasPayload(e) == e.rec.rdata \in 1..Len(ns_buffer.msg.rrs)
PayloadOf(e) == ns_buffer.msg.rrs[e.rec.rdata].rdata

\* --------------------------------------------------------------- the claims

\* C5: for a record of the A type, the data field is the dotted decimal
\* b0.b1.b2.b3 of the four rdata bytes in positional order when rdlength is 4;
\* for every other rdlength it is the invalid-length marker and no rdata byte
\* is read.
ARecordRendering ==
  \A k \in 1..Len(rendered) :
    LET e == rendered[k]
    IN e.rec.type = ns_t_a =>
         IF e.rec.rdlength = 4
         THEN HasPayload(e) =>
                LET f == DataField(e.text)
                    parts == SplitOn(DataBody(e.text), ".", <<>>)
                IN /\ f[1] = "RData: "
                   /\ f[Len(f)] = "\n"
                   /\ Len(parts) = 4
                   /\ \A m \in 1..4 :
                        /\ IsPlainDecimal(parts[m])
                        /\ DecValue(parts[m]) = PayloadOf(e)[m]
                   /\ e.idx = {0, 1, 2, 3}
         ELSE /\ DataField(e.text) = <<"Invalid A record length", "\n">>
              /\ e.idx = {}

\* C5 witness: the address 93.184.216.34 has been printed.
ARecordRendered ==
  \E k \in 1..Len(rendered) :
    /\ rendered[k].rec.type = ns_t_a
    /\ HasPayload(rendered[k])
    /\ PayloadOf(rendered[k]) = <<93, 184, 216, 34>>
    /\ DataField(rendered[k].text) =
         <<"RData: ", "9", "3", ".", "1", "8", "4", ".", "2", "1", "6", ".",
           "3", "4", "\n">>

IsOtherType(e) == e.rec.type # ns_t_a /\ e.rec.type # ns_t_cname

\* C6 as stated: for a record that is neither A nor CNAME the data field is
\* the rdlength bytes, each as two lowercase hexadecimal digits, in order,
\* with one space between neighbours (01 ab), and nothing for rdlength 0.
HexDumpSpaceSeparated ==
  \A k \in 1..Len(rendered) :
    LET e == rendered[k]
    IN (IsOtherType(e) /\ HasPayload(e)) =>
         LET body == DataBody(e.text)
             parts == IF body = <<>> THEN <<>> ELSE SplitOn(body, " ", <<>>)
         IN /\ Len(parts) = e.rec.rdlength
            /\ \A m \in 1..Len(parts) :
                 /\ Len(parts[m]) = 2
                 /\ 16 * HexDigitValue(parts[m][1]) + HexDigitValue(parts[m][2])
                      = PayloadOf(e)[m]

\* C6 as amended: the data field is the rdlength bytes in order, each as two
\* lowercase hexadecimal digits followed by one space (01 ab followed by a
\* space); exactly the offsets below rdlength are read, none for rdlength 0.
HexDumpSpaceTerminated ==
  \A k \in 1..Len(rendered) :
    LET e == rendered[k]
    IN (IsOtherType(e) /\ HasPayload(e)) =>
         LET f == DataField(e.text)
             body == DataBody(e.text)
         IN /\ f[1] = "RData (unknown type): "
            /\ f[Len(f)] = "\n"
            /\ Len(body) = 3 * e.rec.rdlength
            /\ \A m \in 1..e.rec.rdlength :
                 /\ body[3 * m] = " "
                 /\ HexDigitValue(body[3 * m - 2]) \in 0..15
                 /\ HexDigitValue(body[3 * m - 1]) \in 0..15
                 /\ 16 * HexDigitValue(body[3 * m - 2])
                      + HexDigitValue(body[3 * m - 1]) = PayloadOf(e)[m]
            /\ e.idx = 0..(e.rec.rdlength - 1)

\* C6 witness: the payload 01 ab of a type 99 record has been printed.
HexDumpRendered ==
  \E k \in 1..Len(rendered) :
    /\ rendered[k].rec.type = OtherType
    /\ HasPayload(rendered[k])
    /\ PayloadOf(rendered[k]) = <<1, 171>>
    /\ DataField(rendered[k].text) =
         <<"RData (unknown type): ", "0", "1", " ", "a", "b", " ", "\n">>

\* C8: whatever the type of a record, only the offsets 0 .. rdlength-1 of
\* its rdata are read, also for a CNAME payload without a NUL byte.
ReadsWithinRdlength ==
  \A k \in 1..Len(rendered) :
    \A j \in rendered[k].idx : j < rendered[k].rec.rdlength

\* The nodes that follow `cur` along next, and how the chain ends: NULLP,
\* WILD when it leaves the heap, HUNG when it comes back on itself.
RECURSIVE ChainFrom(_, _, _)
ChainFrom(h, cur, visited) ==
  LET n == h[cur].next
  IN IF n = NULLP \/ n = WILD THEN [nodes |-> <<>>, end |-> n]
     ELSE IF n \notin DOMAIN h THEN [nodes |-> <<>>, end |-> WILD]
     ELSE IF n \in visited THEN [nodes |-> <<>>, end |-> HUNG]
     ELSE LET rest == ChainFrom(h, n, visited \cup {n})
          IN [nodes |-> <<n>> \o rest.nodes, end |-> rest.end]

ListOfHead == ChainFrom(heap, response_list, {response_list})

AnswerRRs == ns_buffer.msg.rrs

ParseReturned == (pc = "parse" /\ i = ancount) \/ pc = "print"

\* C1: when every answer extracts, rr_response_parse leaves exactly N records
\* after the sentinel, the k-th carrying the type, class, ttl, rdlength and
\* rdata of the k-th answer.
DecodePreservesOrder ==
  (/\ ParseReturned
   /\ response_list # NULLP
   /\ \A k \in 1..Len(AnswerRRs) : AnswerRRs[k].ok)
  => /\ ListOfHead.end = NULLP
     /\ Len(ListOfHead.nodes) = ancount
     /\ \A k \in 1..Len(ListOfHead.nodes) :
          LET n == heap[ListOfHead.nodes[k]]
          IN /\ n.type = AnswerRRs[k].type
             /\ n.class = AnswerRRs[k].class
             /\ n.ttl = AnswerRRs[k].ttl
             /\ n.rdlength = Len(AnswerRRs[k].rdata)
             /\ n.rdata = k

\* C2: when the answer at some index does not extract, the decode stops
\* there: the loop does not go on to the next index and nothing is rendered.
DecodeAbortsOnFailure ==
  \A k \in 1..Len(AnswerRRs) :
    ~AnswerRRs[k].ok =>
      /\ i < k
      /\ pc \notin {"print", "free_buffer"}
      /\ rendered = <<>>

\* C3: main returns 0 only after a successful lookup-and-print: not for a
\* hostname that fails the syntax check or is longer than 253 characters,
\* nor when the query fails, the message does not parse or there is no answer.
ExitZeroOnlyOnSuccess ==
  status = 0 =>
    /\ argc >= 2
    /\ Len(argv1) <= MAX_HOSTNAME_LEN
    /\ RegexMatches(argv1)
    /\ ns_buffer.msg.framed
    /\ ancount > 0

\* C4: ns_buffer is allocated and unmodified from the start of
\* rr_response_parse until rr_pretty_print_all has returned, every read of
\* rdata finds it allocated, and nothing is read once it is freed.
BufferOutlivesReads ==
  /\ [](pc \in {"parse", "print"} => ns_buffer.st = "live")
  /\ [](\A k \in 1..Len(rendered) : rendered[k].live)
  /\ [][(pc \in {"parse", "print"}) => (ns_buffer' = ns_buffer)]_vars
  /\ [][(ns_buffer.st = "freed") => (rendered' = rendered)]_vars

\* C4 witness: main has returned 0 after rdata bytes were read and printed.
BufferFreedAfterReads ==
  /\ pc = "done"
  /\ status = 0
  /\ ns_buffer.st = "freed"
  /\ \E k \in 1..Len(rendered) : rendered[k].idx # {}

PrintReturned == pc = "free_buffer" \/ (pc = "done" /\ status = 0)

\* C7: one line per decoded record, in list order, the four labelled fields
\* before the data field; the sentinel is never rendered, so no answers
\* means no record lines.
OneLinePerRecord ==
  (pc = "print" \/ PrintReturned) =>
    /\ Len(rendered) <= i
    /\ PrintReturned => Len(rendered) = i
    /\ \A k \in 1..Len(rendered) :
         LET t == rendered[k].text
             p == DataStart(t, 1)
         IN /\ rendered[k].node # response_list
            /\ rendered[k].node = k
            /\ t[1] = "Type: "
            /\ t[Len(t)] = "\n"
            /\ \A m \in 1..(Len(t) - 1) : t[m] # "\n"
            /\ \E a, b, c \in 1..p :
                 /\ a < b /\ b < c /\ c < p
                 /\ t[a] = "Class: " /\ t[b] = "TTL: " /\ t[c] = "RDLength: "

\* C9: from the creation of the sentinel on, the chain of next pointers from
\* the sentinel is finite, acyclic and ends in NULL, and every next field
\* holds NULL or an appended node.
ListWellFormed ==
  (response_list # NULLP /\ pc \notin {"crashed", "hung"}) =>
    /\ ListOfHead.end = NULLP
    /\ \A n \in DOMAIN heap :
         heap[n].next \in {NULLP} \cup (DOMAIN heap \ {response_list})

\* C10: when main returns 0 after every answer extracted, every node
\* rr_response_new allocated (the sentinel and the N appended nodes) has been
\* released.
AllNodesReleased ==
  (/\ pc = "done"
   /\ status = 0
   /\ \A k \in 1..Len(AnswerRRs) : AnswerRRs[k].ok)
  => DOMAIN heap \subseteq freed

====
